---- MODULE Spec2Model ----
(***************************************************************************)
(* Model of the nats-operator controller supervisor                        *)
(* (pkg/controller/controller.go): Controller.Run, initResource,           *)
(* findAllClusters, createTPR, monitor and pollEvent, together with the    *)
(* API server they talk to and the per-cluster runtimes they start.        *)
(*                                                                         *)
(* Three tasks run concurrently once Run has called monitor:               *)
(*   - Run's own task, blocked on <-errCh, then running the deferred       *)
(*     shutdown cascade (lines 118-123, 155);                              *)
(*   - the decoder task started by monitor (lines 230-276);                *)
(*   - the event-processing task started by Run (lines 127-154).           *)
(* Every per-cluster runtime is a further task.                            *)
(***************************************************************************)
EXTENDS Naturals, Sequences, FiniteSets

(***************************************************************************)
(* Bounds of the model.                                                    *)
(***************************************************************************)
\* number of change events the API server records in its log
MaxLog == 2

(***************************************************************************)
(* Values.                                                                 *)
(***************************************************************************)
Names == {"a", "b"}

\* spec.ClusterSpec values carried by the events (Size, Version, Paused)
SpecSet ==
    { [Size |-> 1, Version |-> "v1", Paused |-> FALSE],
      [Size |-> 2, Version |-> "v2", Paused |-> FALSE] }

NoSpec == [Size |-> 0, Version |-> "", Paused |-> FALSE]

DataTypes == {"ADDED", "MODIFIED", "DELETED"}

\* the value of a nil *Event
NoEvent == [type |-> "NONE", name |-> "", spec |-> NoSpec, rv |-> 0]

\* error values that travel over errCh and out of Run
NoErr == "nil"
ErrVersionOutdated == "ErrVersionOutdated"
ErrWatchRequest == "WatchRequestFailed"
ErrInvalidStatusCode == "InvalidStatusCode"
ErrDecode == "FailedToDecode"
FatalErrors == {ErrWatchRequest, ErrInvalidStatusCode, ErrDecode}

\* an item of the NATSClusterList returned by ListClusters
Items == [name : Names, spec : SpecSet]

\* the lists the API server can answer with: items with distinct names, in
\* the order of their names
ListResults ==
    {<<>>} \cup { <<x>> : x \in Items }
           \cup { <<x, y>> : x \in { i \in Items : i.name = "a" },
                              y \in { i \in Items : i.name = "b" } }

VARIABLES
    tprExists,      \* API server: the ThirdPartyResource is registered
    version,        \* API server: the latest resource version of the collection
    log,            \* API server: the change log of the natsclusters collection
    runPc,          \* position of Run's own task
    initFailed,     \* the last initResource call returned an error
    watchVersion,   \* Run's watchVersion, then monitor's (the resume cursor)
    runErr,         \* the error Run returned
    clusters,       \* Controller.clusters: name -> runtime (0 is nil)
    stopChMap,      \* Controller.stopChMap: name -> stop channel (0 is absent)
    runtimes,       \* stop channels and the cluster runtimes built on them
    waitCluster,    \* Controller.waitCluster: the WaitGroup counter
    decPc,          \* position of the decoder task
    pos,            \* index in log of the next frame of the open response
    respOpen,       \* the watch response body is open (not yet closed)
    pending,        \* the event the decoder is sending on eventCh
    errCh,          \* the one-slot error channel
    procPc,         \* position of the event-processing task
    cur,            \* the event the processing task is handling
    exited,         \* the process was ended by logger.Fatalf
    initPath,       \* history: how initResource succeeded
    listed,         \* history: the list initResource pre-populated from
    initCursor,     \* history: the cursor initResource returned
    decoded,        \* history: data frames decoded, in order
    handled,        \* history: events the processing task has handled, in order
    goneSeen,       \* history: the decoder has read a 410 status frame
    services,       \* API server: the services of the namespace
    pods,           \* API server: the pods of the namespace, oldest first
    lastErr,        \* the error the last k8sutil call returned
    recSpec,        \* reconciler: the spec the runtime holds
    recPc,          \* reconciler: position of the runtime's loop
    recStop,        \* reconciler: who has set the stop signal
    replacing,      \* history: running pods deleted for an upgrade, not yet replaced
    lastAct,        \* history: the step taken last
    budget          \* external changes and failures still to come

vars == << tprExists, version, log, runPc, initFailed, watchVersion, runErr, clusters,
           stopChMap, runtimes, waitCluster, decPc, pos, respOpen, pending,
           errCh, procPc, cur, exited, initPath, listed, initCursor,
           decoded, handled, goneSeen, services, pods, lastErr, recSpec,
           recPc, recStop, replacing, lastAct, budget >>

\* the state of the supervisor and of the natsclusters collection
supVars == << tprExists, version, log, runPc, initFailed, watchVersion, runErr,
              clusters, stopChMap, runtimes, waitCluster, decPc, pos, respOpen,
              pending, errCh, procPc, cur, exited, initPath, listed, initCursor,
              decoded, handled, goneSeen >>

\* the state of one cluster's reconciler and of its pods and services
recVars == << services, pods, lastErr, recSpec, recPc, recStop, replacing,
              lastAct, budget >>

serverVars == << tprExists, version, log >>
mapVars    == << clusters, stopChMap, runtimes, waitCluster >>
decVars    == << decPc, pos, respOpen, pending, errCh >>
procVars   == << procPc, cur >>
histVars   == << initPath, listed, initCursor, decoded, handled, goneSeen >>

Last(s) == s[Len(s)]

(***************************************************************************)
(* Stop channels and cluster runtimes.  A slot of `runtimes` is a stop     *)
(* channel (make(chan struct{})) and, once cluster.New or cluster.Restore  *)
(* has been called with it, the runtime built on that channel:             *)
(*   phase "chan"    the channel exists, no runtime was built on it yet    *)
(*   phase "running" the runtime's loop runs, it holds the completion latch*)
(*   phase "done"    the loop has exited and released the latch            *)
(***************************************************************************)
MakeChan(rts, name) ==
    Append(rts, [name |-> name, spec |-> NoSpec, stop |-> FALSE, phase |-> "chan"])

\* close(stopC)
CloseChan(rts, k) == [rts EXCEPT ![k].stop = TRUE]

\* cluster.New(kubeCli, name, ns, spec, stopC, wg): builds and starts a runtime
New(rts, k, spec) == [rts EXCEPT ![k].spec = spec, ![k].phase = "running"]

\* cluster.Restore(kubeCli, name, ns, spec, stopC, wg): as New, for a known cluster
Restore(rts, k, spec) == [rts EXCEPT ![k].spec = spec, ![k].phase = "running"]

\* (*Cluster).Update(spec): replace the runtime's current spec
Update(rts, k, spec) == [rts EXCEPT ![k].spec = spec]

\* (*Cluster).Delete(), first half: set the stop signal
DeleteSignal(rts, k) == [rts EXCEPT ![k].stop = TRUE]

\* (*Cluster).Delete(), second half: the loop has exited
DeleteJoined(rts, k) == rts[k].phase = "done"

Live(rts) == { k \in 1..Len(rts) : rts[k].phase = "running" }

(***************************************************************************)
(* The API server.                                                         *)
(***************************************************************************)
\* A change of the natsclusters collection, recorded with the resource
\* version rv.  The stream is an input of the controller: it is not assumed
\* to announce a name only once.
Frame(t, n, s, rv) ==
    [type |-> t, name |-> n, spec |-> IF t = "DELETED" THEN NoSpec ELSE s, rv |-> rv]

\* ListClusters: the resource version a list taken now reports
ListVersion == version

\* WatchClusters(host, ns, client, resourceVersion): the response carries the
\* changes recorded after resourceVersion; the index of its first frame
WatchClusters(resourceVersion) ==
    Cardinality({ i \in 1..Len(log) : log[i].rv <= resourceVersion }) + 1

(***************************************************************************)
(* k8sutil: the calls the reconciler makes on the API server, and the      *)
(* declarations it builds.                                                 *)
(***************************************************************************)
\* the versions a cluster spec names, and the node selectors it carries
Versions == {"v1", "v2"}
NodeSelectors == {{}, {<<"disk", "ssd">>}}

\* spec.ClusterSpec with the fields MakePodSpec and the reconciler read
ClusterSpecs ==
    { [Size |-> 1, Version |-> "v1", Paused |-> FALSE,
       AntiAffinity |-> FALSE, NodeSelector |-> {}],
      [Size |-> 2, Version |-> "v2", Paused |-> FALSE,
       AntiAffinity |-> TRUE, NodeSelector |-> {}],
      [Size |-> 2, Version |-> "v1", Paused |-> TRUE,
       AntiAffinity |-> FALSE, NodeSelector |-> {<<"disk", "ssd">>}],
      [Size |-> 1, Version |-> "v2", Paused |-> FALSE,
       AntiAffinity |-> TRUE, NodeSelector |-> {<<"disk", "ssd">>}] }

\* errors: nil, an *apierrors.StatusError with its code and reason, or any
\* other error value with its text
NilErr == [kind |-> "nil", code |-> 0, reason |-> ""]
StatusError(code, reason) == [kind |-> "StatusError", code |-> code, reason |-> reason]
OtherError(text) == [kind |-> "error", code |-> 0, reason |-> text]

StatusConflict == 409
StatusNotFound == 404
ErrAlreadyExists == StatusError(StatusConflict, "AlreadyExists")
ErrNotFound == StatusError(StatusNotFound, "NotFound")
ErrTransport == OtherError("connection refused")
ErrWaitTimeout == OtherError("timed out waiting for the condition")

\* the errors an API call can return
ApiErrors ==
    { ErrAlreadyExists, ErrNotFound, ErrTransport, ErrWaitTimeout,
      StatusError(StatusConflict, "Conflict"),
      StatusError(StatusNotFound, "AlreadyExists"),
      OtherError("AlreadyExists") }

IsKubernetesResourceAlreadyExistError(err) ==
    /\ err.kind = "StatusError"
    /\ err.code = StatusConflict /\ err.reason = "AlreadyExists"

IsKubernetesResourceNotFoundError(err) ==
    /\ err.kind = "StatusError"
    /\ err.code = StatusNotFound /\ err.reason = "NotFound"

Labels(app, clusterName) == [app |-> app, nats_cluster |-> clusterName]

makeServiceSpec(clusterName) ==
    [name |-> clusterName,
     labels |-> Labels("nats", clusterName),
     ports |-> {"client"},
     selector |-> Labels("nats", clusterName)]

\* fault variant of makeMgmtServiceSpec: the service is named as the client
\* service is
makeMgmtServiceSpec_ClientName(clusterName) ==
    [name |-> clusterName,
     labels |-> Labels("nats-mgmt", clusterName),
     ports |-> {"cluster", "monitoring"},
     selector |-> Labels("nats-mgmt", clusterName)]

makeMgmtServiceSpec(clusterName) ==
    [name |-> clusterName \o "-mgmt",
     labels |-> Labels("nats-mgmt", clusterName),
     ports |-> {"cluster", "monitoring"},
     selector |-> Labels("nats-mgmt", clusterName)]

\* kclient.Services(ns).Create(svc): the API server keeps one service per
\* name; `ok` says whether the request reaches it
ServicesCreate(svcs, svc, ok) ==
    IF ~ok THEN [services |-> svcs, err |-> ErrTransport]
    ELSE IF \E s \in svcs : s.name = svc.name
           THEN [services |-> svcs, err |-> ErrAlreadyExists]
           ELSE [services |-> svcs \cup {svc}, err |-> NilErr]

\* kclient.Services(ns).Delete(name)
ServicesDelete(svcs, name, ok) ==
    IF ~ok THEN [services |-> svcs, err |-> ErrTransport]
    ELSE IF \E s \in svcs : s.name = name
           THEN [services |-> { s \in svcs : s.name # name }, err |-> NilErr]
           ELSE [services |-> svcs, err |-> ErrNotFound]

CreateMgmtService(svcs, clusterName, ok) ==
    ServicesCreate(svcs, makeMgmtServiceSpec(clusterName), ok)

DeleteMgmtService(svcs, clusterName, ok) ==
    ServicesDelete(svcs, makeMgmtServiceSpec(clusterName).name, ok)

CreateService(svcs, clusterName, ok) ==
    ServicesCreate(svcs, makeServiceSpec(clusterName), ok)

DeleteService(svcs, clusterName, ok) ==
    ServicesDelete(svcs, makeServiceSpec(clusterName).name, ok)

versionAnnotationKey == "nats.version"

GetNATSVersion(pod) == pod.annotations[versionAnnotationKey]

SetNATSVersion(pod, v) ==
    [pod EXCEPT !.annotations = [k \in {versionAnnotationKey} |-> v]]

MakeNATSImage(v) == "nats:" \o v

\* the container of a peer pod: the nats image of the version, with the args
natsPodContainer(args, v) == [name |-> "nats", image |-> MakeNATSImage(v), args |-> args]

\* the placement rule asking for one peer of the cluster per node
podWithAntiAffinity(pod, clusterName) ==
    [pod EXCEPT !.antiAffinity = Labels("nats", clusterName)]

PodWithNodeSelector(p, ns) == [p EXCEPT !.nodeSelector = ns]

NoAffinity == Labels("", "")

\* fault variant of MakePodSpec: SetNATSVersion is not called
MakePodSpec_NoAnnotation(clusterName, cs) ==
    LET args == << "--cluster", "--http_port", "--routes=" \o clusterName \o "-mgmt" >>
        pod == [generateName |-> clusterName \o "-",
                labels |-> Labels("nats", clusterName),
                annotations |-> [k \in {versionAnnotationKey} |-> ""],
                container |-> natsPodContainer(args, cs.Version),
                restartPolicy |-> "Never",
                antiAffinity |-> NoAffinity,
                nodeSelector |-> {},
                phase |-> "Pending"]
        p2 == IF cs.AntiAffinity THEN podWithAntiAffinity(pod, clusterName) ELSE pod
    IN  IF Cardinality(cs.NodeSelector) # 0
          THEN PodWithNodeSelector(p2, cs.NodeSelector)
          ELSE p2

\* a map without the key reads as "": Annotations starts as the empty map
MakePodSpec(clusterName, cs) ==
    LET args == << "--cluster", "--http_port", "--routes=" \o clusterName \o "-mgmt" >>
        pod == [generateName |-> clusterName \o "-",
                labels |-> Labels("nats", clusterName),
                annotations |-> [k \in {versionAnnotationKey} |-> ""],
                container |-> natsPodContainer(args, cs.Version),
                restartPolicy |-> "Never",
                antiAffinity |-> NoAffinity,
                nodeSelector |-> {},
                phase |-> "Pending"]
        p1 == SetNATSVersion(pod, cs.Version)
        p2 == IF cs.AntiAffinity THEN podWithAntiAffinity(p1, clusterName) ELSE p1
    IN  IF Cardinality(cs.NodeSelector) # 0
          THEN PodWithNodeSelector(p2, cs.NodeSelector)
          ELSE p2

\* what the API server and the node do with a pod that is being created
PodOutcomes == {"createFails", "watchFails", "running", "deadline"}

Started(pod, outcome) ==
    [pod EXCEPT !.phase = IF outcome = "running" THEN "Running" ELSE "Pending"]

\* fault variant of CreateAndWaitPod: the pod that did not start before the
\* deadline is deleted
CreateAndWaitPod_RemovesDeadPod(ps, pod, outcome) ==
    CASE outcome = "createFails" -> [pods |-> ps, err |-> ErrTransport]
      [] outcome = "watchFails"  -> [pods |-> Append(ps, Started(pod, outcome)),
                                     err |-> ErrTransport]
      [] outcome = "running"     -> [pods |-> Append(ps, Started(pod, outcome)),
                                     err |-> NilErr]
      [] outcome = "deadline"    -> [pods |-> ps, err |-> ErrWaitTimeout]

\* Create, then Watch on the created pod, then watch.Until(timeout, PodRunning)
CreateAndWaitPod(ps, pod, outcome) ==
    CASE outcome = "createFails" -> [pods |-> ps, err |-> ErrTransport]
      [] outcome = "watchFails"  -> [pods |-> Append(ps, Started(pod, outcome)),
                                     err |-> ErrTransport]
      [] outcome = "running"     -> [pods |-> Append(ps, Started(pod, outcome)),
                                     err |-> NilErr]
      [] outcome = "deadline"    -> [pods |-> Append(ps, Started(pod, outcome)),
                                     err |-> ErrWaitTimeout]

\* PodListOpt(clusterName): the pods the label selector of the cluster matches
PodListOpt(ps, clusterName) ==
    { i \in 1..Len(ps) : ps[i].labels = Labels("nats", clusterName) }

\* history: no step was taken yet
NoStep == [op |-> "none", name |-> "", outcome |-> "", prev |-> ""]

(***************************************************************************)
(* Init: the state New(cfg) returns (lines 88-99), before Run is called.   *)
(* The ThirdPartyResource may or may not be registered already; when it is *)
(* the collection may have changed before.                                 *)
(***************************************************************************)
Init ==
    /\ tprExists \in BOOLEAN
    /\ version \in (IF tprExists THEN 0..MaxLog ELSE {0})
    /\ log = <<>>
    /\ runPc = "init"
    /\ initFailed = FALSE
    /\ watchVersion = 0
    /\ runErr = NoErr
    /\ clusters = [n \in Names |-> 0]
    /\ stopChMap = [n \in Names |-> 0]
    /\ runtimes = <<>>
    /\ waitCluster = 0
    /\ decPc = "notStarted"
    /\ pos = 0
    /\ respOpen = FALSE
    /\ pending = NoEvent
    /\ errCh = NoErr
    /\ procPc = "notStarted"
    /\ cur = NoEvent
    /\ exited = FALSE
    /\ initPath = "none"
    /\ listed = <<>>
    /\ initCursor = 0
    /\ decoded = <<>>
    /\ handled = <<>>
    /\ goneSeen = FALSE
    /\ services = {}
    /\ pods = <<>>
    /\ lastErr = NilErr
    /\ recSpec = NoSpec
    /\ recPc = "none"
    /\ recStop = "none"
    /\ replacing = 0
    /\ lastAct = NoStep
    /\ budget = 0

\* The API server records a change.  Changes are recorded one at a time, as
\* the decoder comes to wait for the next frame or is between two watches.
ServerEmit ==
    /\ version < MaxLog
    /\ decPc \in {"open", "poll"} /\ ~exited
    /\ WatchClusters(watchVersion) > Len(log)
    /\ \E t \in DataTypes, n \in Names, s \in SpecSet :
         log' = Append(log, Frame(t, n, s, version + 1))
    /\ version' = version + 1
    /\ UNCHANGED << tprExists, runPc, initFailed, watchVersion, runErr >>
    /\ UNCHANGED << mapVars, decVars, procVars, exited, histVars >>
    /\ UNCHANGED recVars

(***************************************************************************)
(* Run, lines 107-116: initResource with retry.                            *)
(***************************************************************************)
\* the cursor initResource starts from (line 180, "0")
FreshVersion == 0

\* the retry loop of Run after a failed initResource (lines 109-115)
InitRetry ==
    /\ initFailed' = TRUE
    /\ runPc' = "init"
    /\ UNCHANGED << version, log, watchVersion, runErr, mapVars, decVars, procVars,
                    exited, histVars >>
    /\ UNCHANGED recVars

\* createTPR succeeds: Create and WaitTPRReady both succeed
InitCreated ==
    /\ runPc = "init" /\ ~exited
    /\ ~tprExists
    /\ tprExists' = TRUE
    /\ watchVersion' = FreshVersion
    /\ runPc' = "monitor"
    /\ initFailed' = FALSE
    /\ initPath' = "fresh"
    /\ initCursor' = FreshVersion
    /\ UNCHANGED << version, log, runErr, mapVars, decVars, procVars, exited,
                    listed, decoded, handled, goneSeen >>
    /\ UNCHANGED recVars

\* createTPR: Create succeeds, WaitTPRReady fails (line 218)
InitNotReady ==
    /\ runPc = "init" /\ ~exited
    /\ ~tprExists
    /\ tprExists' = TRUE
    /\ InitRetry

\* fault variant of InitCreateFailed: Run leaves the retry loop although
\* initResource failed (the test of line 109 inverted)
InitCreateFailed_Proceeds ==
    /\ runPc = "init" /\ ~exited
    /\ runPc' = "monitor"
    /\ UNCHANGED << serverVars, initFailed, watchVersion, runErr, mapVars, decVars,
                    procVars, exited, histVars >>
    /\ UNCHANGED recVars

\* createTPR: Create fails, not with AlreadyExists (line 189)
InitCreateFailed ==
    /\ runPc = "init" /\ ~exited
    /\ UNCHANGED tprExists
    /\ InitRetry

\* findAllClusters fails: the list request or the decoding of its body
\* fails (lines 160-168), before any runtime is restored
InitListFailed ==
    /\ runPc = "init" /\ ~exited
    /\ tprExists
    /\ UNCHANGED tprExists
    /\ InitRetry

\* findAllClusters, lines 169-175: one stop channel and one restored runtime
\* per item.  `item` is the loop variable and &item.Spec is what Restore is
\* given: `aliased` says whether the runtimes read the spec through that
\* pointer after the loop (they then all see the last item's spec).
findAllClusters(items, listVersion, aliased) ==
    LET n == Len(runtimes)
        specOf(i) == IF aliased THEN items[Len(items)].spec ELSE items[i].spec
        slot(i) == Restore(MakeChan(<<>>, items[i].name), 1, specOf(i))[1]
        idx(nm) == CHOOSE i \in 1..Len(items) : items[i].name = nm
        has(nm) == \E i \in 1..Len(items) : items[i].name = nm
    IN  /\ runtimes' = runtimes \o [i \in 1..Len(items) |-> slot(i)]
        /\ stopChMap' = [nm \in Names |-> IF has(nm) THEN n + idx(nm) ELSE stopChMap[nm]]
        /\ clusters' = [nm \in Names |-> IF has(nm) THEN n + idx(nm) ELSE clusters[nm]]
        /\ waitCluster' = waitCluster + Len(items)
        /\ watchVersion' = listVersion

\* createTPR reports AlreadyExists and findAllClusters succeeds
InitAlreadyExists ==
    /\ runPc = "init" /\ ~exited
    /\ tprExists
    /\ \E items \in ListResults, aliased \in BOOLEAN :
         /\ findAllClusters(items, ListVersion, aliased)
         /\ listed' = items
    /\ initCursor' = ListVersion
    /\ initFailed' = FALSE
    /\ runPc' = "monitor"
    /\ initPath' = "listed"
    /\ UNCHANGED << serverVars, runErr, decVars, procVars, exited,
                    decoded, handled, goneSeen >>
    /\ UNCHANGED recVars

(***************************************************************************)
(* Run, lines 125-155: monitor starts the decoder task, Run starts the     *)
(* event-processing task and blocks on errCh.                              *)
(***************************************************************************)
StartMonitor ==
    /\ runPc = "monitor" /\ ~exited
    /\ runPc' = "recvErr"
    /\ decPc' = "open"
    /\ procPc' = "idle"
    /\ UNCHANGED << serverVars, initFailed, watchVersion, runErr, mapVars,
                    pos, respOpen, pending, errCh, cur, exited, histVars >>
    /\ UNCHANGED recVars

(***************************************************************************)
(* The decoder task, lines 230-276.                                        *)
(***************************************************************************)
\* the decoder reports err on errCh and returns; the deferred close(eventCh)
\* runs (lines 231, 236, 241, 256, 262)
DecoderFails(err) ==
    /\ errCh' = err
    /\ decPc' = "done"

\* fault variant of WatchOpen: the watch is requested at the cursor monitor
\* was called with, not at the cursor the decoder has advanced
WatchOpen_FromInitialCursor ==
    /\ decPc = "open" /\ ~exited
    /\ pos' = WatchClusters(initCursor)
    /\ respOpen' = TRUE
    /\ decPc' = "poll"
    /\ UNCHANGED << serverVars, runPc, initFailed, watchVersion, runErr, mapVars,
                    pending, errCh, procVars, exited, histVars >>
    /\ UNCHANGED recVars

\* lines 234-245: the watch request succeeds with status 200
WatchOpen ==
    /\ decPc = "open" /\ ~exited
    /\ pos' = WatchClusters(watchVersion)
    /\ respOpen' = TRUE
    /\ decPc' = "poll"
    /\ UNCHANGED << serverVars, runPc, initFailed, watchVersion, runErr, mapVars,
                    pending, errCh, procVars, exited, initPath, listed, initCursor,
                    decoded, handled, goneSeen >>
    /\ UNCHANGED recVars

\* lines 235-238: the watch request fails
WatchRequestFails ==
    /\ decPc = "open" /\ ~exited
    /\ DecoderFails(ErrWatchRequest)
    /\ UNCHANGED << serverVars, runPc, initFailed, watchVersion, runErr, mapVars,
                    pos, respOpen, pending, procVars, exited, histVars >>
    /\ UNCHANGED recVars

\* lines 239-243: the response status is not 200; the body is closed
WatchBadStatus ==
    /\ decPc = "open" /\ ~exited
    /\ DecoderFails(ErrInvalidStatusCode)
    /\ respOpen' = FALSE
    /\ UNCHANGED << serverVars, runPc, initFailed, watchVersion, runErr, mapVars,
                    pos, pending, procVars, exited, histVars >>
    /\ UNCHANGED recVars

\* fault variant of PollData: the decoded event is not offered on eventCh
PollData_DropsEvent ==
    /\ decPc = "poll" /\ ~exited
    /\ pos <= Len(log)
    /\ watchVersion' = log[pos].rv
    /\ pos' = pos + 1
    /\ decoded' = Append(decoded, log[pos])
    /\ UNCHANGED << serverVars, runPc, initFailed, runErr, mapVars, decPc, respOpen,
                    pending, errCh, procVars, exited, initPath, listed, initCursor,
                    handled, goneSeen >>
    /\ UNCHANGED recVars

\* fault variant of PollData: the cursor is not moved to the event's
\* ResourceVersion (line 270 missing)
PollData_StaleCursor ==
    /\ decPc = "poll" /\ ~exited
    /\ pos <= Len(log)
    /\ pending' = log[pos]
    /\ pos' = pos + 1
    /\ decoded' = Append(decoded, log[pos])
    /\ decPc' = "send"
    /\ UNCHANGED << serverVars, runPc, initFailed, watchVersion, runErr, mapVars,
                    respOpen, errCh, procVars, exited, initPath, listed, initCursor,
                    handled, goneSeen >>
    /\ UNCHANGED recVars

\* lines 247, 268-271: pollEvent decodes a data frame; the cursor moves to
\* its ResourceVersion and the event is offered on eventCh
PollData ==
    /\ decPc = "poll" /\ ~exited
    /\ pos <= Len(log)
    /\ watchVersion' = log[pos].rv
    /\ pending' = log[pos]
    /\ pos' = pos + 1
    /\ decoded' = Append(decoded, log[pos])
    /\ decPc' = "send"
    /\ UNCHANGED << serverVars, runPc, initFailed, runErr, mapVars, respOpen,
                    errCh, procVars, exited, initPath, listed, initCursor,
                    handled, goneSeen >>
    /\ UNCHANGED recVars

\* lines 249-253, 274: the API server closed the stream; the body is closed
\* and the outer loop opens a new watch
PollEOF ==
    /\ decPc = "poll" /\ ~exited
    /\ respOpen' = FALSE
    /\ decPc' = "open"
    /\ UNCHANGED << serverVars, runPc, initFailed, watchVersion, runErr, mapVars,
                    pos, pending, errCh, procVars, exited, histVars >>
    /\ UNCHANGED recVars

\* lines 249, 255-257 (pollEvent lines 284-288, 295, 306): a frame that does
\* not decode
PollMalformed ==
    /\ decPc = "poll" /\ ~exited
    /\ DecoderFails(ErrDecode)
    /\ UNCHANGED << serverVars, runPc, initFailed, watchVersion, runErr, mapVars,
                    pos, respOpen, pending, procVars, exited, histVars >>
    /\ UNCHANGED recVars

\* fault variant of PollGone: the 410 status is taken for a clean close and
\* the watch is opened again
PollGone_Reopens ==
    /\ decPc = "poll" /\ ~exited
    /\ respOpen' = FALSE
    /\ decPc' = "open"
    /\ goneSeen' = TRUE
    /\ UNCHANGED << serverVars, runPc, initFailed, watchVersion, runErr, mapVars,
                    pos, pending, errCh, procVars, exited, initPath, listed,
                    initCursor, decoded, handled >>
    /\ UNCHANGED recVars

\* lines 260-264 (pollEvent lines 291-297): an ERROR frame with code 410
PollGone ==
    /\ decPc = "poll" /\ ~exited
    /\ DecoderFails(ErrVersionOutdated)
    /\ goneSeen' = TRUE
    /\ UNCHANGED << serverVars, runPc, initFailed, watchVersion, runErr, mapVars,
                    pos, respOpen, pending, procVars, exited, initPath, listed,
                    initCursor, decoded, handled >>
    /\ UNCHANGED recVars

\* lines 260, 265: an ERROR frame with another code; logger.Fatalf ends the
\* process
PollOtherStatus ==
    /\ decPc = "poll" /\ ~exited
    /\ exited' = TRUE
    /\ UNCHANGED << serverVars, runPc, initFailed, watchVersion, runErr, mapVars,
                    decVars, procVars, histVars >>
    /\ UNCHANGED recVars

\* line 271 and line 128: the rendezvous on the unbuffered eventCh
Deliver ==
    /\ decPc = "send" /\ procPc = "idle" /\ ~exited
    /\ cur' = pending
    /\ pending' = NoEvent
    /\ procPc' = "handle"
    /\ decPc' = "poll"
    /\ UNCHANGED << serverVars, runPc, initFailed, watchVersion, runErr, mapVars,
                    pos, respOpen, errCh, exited, histVars >>
    /\ UNCHANGED recVars

(***************************************************************************)
(* The event-processing task, lines 127-154.                               *)
(***************************************************************************)
\* the event is done with: the loop goes back to receive from eventCh
EventDone ==
    /\ handled' = Append(handled, cur)
    /\ cur' = NoEvent
    /\ procPc' = "idle"

\* line 128: eventCh is closed, the range loop ends
ProcExit ==
    /\ procPc = "idle" /\ decPc = "done" /\ ~exited
    /\ procPc' = "exited"
    /\ UNCHANGED << serverVars, runPc, initFailed, watchVersion, runErr, mapVars,
                    decVars, cur, exited, histVars >>
    /\ UNCHANGED recVars

\* ADDED, lines 131-135: a stop channel is made and stored under the name
AddedMakeChan ==
    /\ procPc = "handle" /\ cur.type = "ADDED" /\ ~exited
    /\ runtimes' = MakeChan(runtimes, cur.name)
    /\ stopChMap' = [stopChMap EXCEPT ![cur.name] = Len(runtimes) + 1]
    /\ procPc' = "adding"
    /\ UNCHANGED << serverVars, runPc, initFailed, watchVersion, runErr, clusters,
                    waitCluster, decVars, cur, exited, histVars >>
    /\ UNCHANGED recVars

\* ADDED, lines 137-138: a runtime is built on that channel and stored under
\* the name
AddedNew ==
    /\ procPc = "adding" /\ ~exited
    /\ LET stopC == stopChMap[cur.name]
       IN  /\ runtimes' = New(runtimes, stopC, cur.spec)
           /\ clusters' = [clusters EXCEPT ![cur.name] = stopC]
    /\ waitCluster' = waitCluster + 1
    /\ EventDone
    /\ UNCHANGED << serverVars, runPc, initFailed, watchVersion, runErr, stopChMap,
                    decVars, exited, initPath, listed, initCursor, decoded,
                    goneSeen >>
    /\ UNCHANGED recVars

\* fault variant of Modified: the new spec is forwarded to every registered
\* runtime
Modified_All ==
    /\ procPc = "handle" /\ cur.type = "MODIFIED" /\ ~exited
    /\ runtimes' = [k \in 1..Len(runtimes) |->
                        IF \E n \in Names : clusters[n] = k
                          THEN Update(runtimes, k, cur.spec)[k]
                          ELSE runtimes[k]]
    /\ EventDone
    /\ UNCHANGED << serverVars, runPc, initFailed, watchVersion, runErr, clusters,
                    stopChMap, waitCluster, decVars, exited, initPath, listed,
                    initCursor, decoded, goneSeen >>
    /\ UNCHANGED recVars

\* MODIFIED, lines 139-144
Modified ==
    /\ procPc = "handle" /\ cur.type = "MODIFIED" /\ ~exited
    /\ IF clusters[cur.name] = 0
         THEN UNCHANGED runtimes
         ELSE runtimes' = Update(runtimes, clusters[cur.name], cur.spec)
    /\ EventDone
    /\ UNCHANGED << serverVars, runPc, initFailed, watchVersion, runErr, clusters,
                    stopChMap, waitCluster, decVars, exited, initPath, listed,
                    initCursor, decoded, goneSeen >>
    /\ UNCHANGED recVars

\* DELETED, lines 145-149: no runtime under the name, the event is dropped
DeletedDrop ==
    /\ procPc = "handle" /\ cur.type = "DELETED" /\ ~exited
    /\ clusters[cur.name] = 0
    /\ EventDone
    /\ UNCHANGED << serverVars, runPc, initFailed, watchVersion, runErr, mapVars,
                    decVars, exited, initPath, listed, initCursor, decoded,
                    goneSeen >>
    /\ UNCHANGED recVars

\* DELETED, line 150: Delete() is entered and signals the runtime to stop
DeletedSignal ==
    /\ procPc = "handle" /\ cur.type = "DELETED" /\ ~exited
    /\ clusters[cur.name] # 0
    /\ runtimes' = DeleteSignal(runtimes, clusters[cur.name])
    /\ procPc' = "deleting"
    /\ UNCHANGED << serverVars, runPc, initFailed, watchVersion, runErr, clusters,
                    stopChMap, waitCluster, decVars, cur, exited, histVars >>
    /\ UNCHANGED recVars

\* fault variant of DeletedRemove: the name stays in clusters (line 151
\* missing)
DeletedRemove_KeepsEntry ==
    /\ procPc = "deleting" /\ ~exited
    /\ DeleteJoined(runtimes, clusters[cur.name])
    /\ EventDone
    /\ UNCHANGED << serverVars, runPc, initFailed, watchVersion, runErr, mapVars,
                    decVars, exited, initPath, listed, initCursor, decoded,
                    goneSeen >>
    /\ UNCHANGED recVars

\* DELETED, lines 150-151: Delete() returns once the runtime has completed,
\* and the name is removed from clusters
DeletedRemove ==
    /\ procPc = "deleting" /\ ~exited
    /\ DeleteJoined(runtimes, clusters[cur.name])
    /\ clusters' = [clusters EXCEPT ![cur.name] = 0]
    /\ EventDone
    /\ UNCHANGED << serverVars, runPc, initFailed, watchVersion, runErr, stopChMap,
                    runtimes, waitCluster, decVars, exited, initPath, listed,
                    initCursor, decoded, goneSeen >>
    /\ UNCHANGED recVars

(***************************************************************************)
(* A cluster runtime: its loop observes the stop signal, exits and         *)
(* releases the completion latch.                                          *)
(***************************************************************************)
RuntimeExit(k) ==
    /\ ~exited
    /\ runtimes[k].phase = "running" /\ runtimes[k].stop
    /\ runtimes' = [runtimes EXCEPT ![k].phase = "done"]
    /\ waitCluster' = waitCluster - 1
    /\ UNCHANGED << serverVars, runPc, initFailed, watchVersion, runErr, clusters,
                    stopChMap, decVars, procVars, exited, histVars >>
    /\ UNCHANGED recVars

(***************************************************************************)
(* Run, lines 155 and 118-123: the error arrives and the deferred cascade  *)
(* runs.                                                                   *)
(***************************************************************************)
\* line 155: <-errCh
RecvErr ==
    /\ runPc = "recvErr" /\ ~exited
    /\ errCh # NoErr
    /\ runErr' = errCh
    /\ errCh' = NoErr
    /\ runPc' = "cascade"
    /\ UNCHANGED << serverVars, initFailed, watchVersion, mapVars, decPc, pos,
                    respOpen, pending, procVars, exited, histVars >>
    /\ UNCHANGED recVars

\* lines 119-121: every channel in stopChMap is closed
CloseAll(rts, chans) ==
    [k \in 1..Len(rts) |->
        IF \E n \in Names : chans[n] = k THEN CloseChan(rts, k)[k] ELSE rts[k]]

CascadeClose ==
    /\ runPc = "cascade" /\ ~exited
    /\ runtimes' = CloseAll(runtimes, stopChMap)
    /\ runPc' = "wait"
    /\ UNCHANGED << serverVars, initFailed, watchVersion, runErr, clusters,
                    stopChMap, waitCluster, decVars, procVars, exited, histVars >>
    /\ UNCHANGED recVars

\* line 122: waitCluster.Wait() returns, then Run returns the error
CascadeWait ==
    /\ runPc = "wait" /\ ~exited
    /\ waitCluster = 0
    /\ runPc' = "returned"
    /\ UNCHANGED << serverVars, initFailed, watchVersion, runErr, mapVars,
                    decVars, procVars, exited, histVars >>
    /\ UNCHANGED recVars

Next ==
    \/ ServerEmit
    \/ InitCreated
    \/ InitNotReady
    \/ InitCreateFailed
    \/ InitListFailed
    \/ InitAlreadyExists
    \/ StartMonitor
    \/ WatchOpen
    \/ WatchRequestFails
    \/ WatchBadStatus
    \/ PollData
    \/ PollEOF
    \/ PollMalformed
    \/ PollGone
    \/ PollOtherStatus
    \/ Deliver
    \/ ProcExit
    \/ AddedMakeChan
    \/ AddedNew
    \/ Modified
    \/ DeletedDrop
    \/ DeletedSignal
    \/ DeletedRemove
    \/ \E k \in 1..Len(runtimes) : RuntimeExit(k)
    \/ RecvErr
    \/ CascadeClose
    \/ CascadeWait

Spec == Init /\ [][Next]_vars

TypeOK ==
    /\ tprExists \in BOOLEAN
    /\ runPc \in {"init", "monitor", "recvErr", "cascade", "wait", "returned"}
    /\ decPc \in {"notStarted", "open", "poll", "send", "done"}
    /\ procPc \in {"notStarted", "idle", "handle", "adding", "deleting", "exited"}
    /\ waitCluster = Cardinality(Live(runtimes))
    /\ version <= MaxLog
    /\ initFailed \in BOOLEAN

(***************************************************************************)
(* Notions the properties below are stated with.                           *)
(***************************************************************************)
\* the runtimes that were built (cluster.New or cluster.Restore was called)
Constructed(rts) == { k \in 1..Len(rts) : rts[k].phase # "chan" }

\* the live runtimes that carry name n
LiveFor(n) == { k \in Live(runtimes) : runtimes[k].name = n }

\* the events that were decoded and are not handled yet: the one in the
\* hands of the processing task, then the one offered on eventCh
InFlight ==
    (IF procPc \in {"handle", "adding", "deleting"} THEN << cur >> ELSE << >>)
        \o (IF decPc = "send" THEN << pending >> ELSE << >>)

\* the processing task finishes the event it holds in this step
Handles(t) == handled' # handled /\ cur.type = t

\* the changes recorded after resource version lo, up to resource version hi
LogBetween(lo, hi) ==
    LET ix == { i \in 1..Len(log) : lo < log[i].rv /\ log[i].rv <= hi }
    IN  [j \in 1..Cardinality(ix) |->
            log[CHOOSE i \in ix : Cardinality({ h \in ix : h < i }) = j - 1]]

(***************************************************************************)
(* C1.  At most one live runtime (started, not completed) exists per       *)
(* cluster name, whatever list pre-populated the controller and whatever   *)
(* ADDED, MODIFIED and DELETED events followed, an ADDED for a name that   *)
(* already has a runtime included.                                         *)
(***************************************************************************)
C1_AtMostOneLiveRuntimePerName ==
    \A n \in Names : Cardinality(LiveFor(n)) <= 1

(***************************************************************************)
(* C2.  The events the processing task handles are the data frames the     *)
(* decoder decoded, each once and in the order of the stream, over any     *)
(* number of clean closes and reopens: the handled events followed by the  *)
(* ones in flight are the decoded frames, and the decoded frames carry     *)
(* strictly increasing resource versions.                                  *)
(***************************************************************************)
C2_HandledInStreamOrder ==
    /\ handled \o InFlight = decoded
    /\ \A i \in 1..Len(decoded) : \A j \in 1..Len(decoded) :
          i < j => decoded[i].rv < decoded[j].rv

C2_Witness ==
    /\ Len(handled) >= 2
    /\ handled = decoded
    /\ handled[1].name = handled[2].name
    /\ decPc = "open"

C4_ReturnsAfterAllStopped ==
    (runPc = "returned" /\ runErr \in FatalErrors) =>
        \A k \in Constructed(runtimes) :
            runtimes[k].stop /\ runtimes[k].phase = "done"

(***************************************************************************)
(* C5.  The watch cursor never moves back: each decoded data frame sets it *)
(* to that frame's ResourceVersion, and a step that decodes no data frame  *)
(* (a frame that fails to decode, an ERROR frame, a clean close, a reopen) *)
(* leaves it where it is.                                                  *)
(***************************************************************************)
C5_CursorMonotone ==
    [][ /\ watchVersion' >= watchVersion
        /\ decoded' # decoded => watchVersion' = Last(decoded').rv
        /\ (decoded' = decoded /\ decPc # "notStarted") => watchVersion' = watchVersion
      ]_vars

C5_Witness ==
    /\ Len(decoded) >= 2
    /\ watchVersion = Last(decoded).rv
    /\ watchVersion > initCursor + 1
    /\ errCh = ErrDecode

(***************************************************************************)
(* C6.  A clean end of the watch stream raises no error and does not end   *)
(* Run: the response is closed and the watch is opened again at the        *)
(* ResourceVersion of the last decoded event (the initial cursor when none *)
(* was decoded), so that the decoded frames are, with no gap, the changes  *)
(* recorded after the initial cursor up to the cursor.                     *)
(***************************************************************************)
C6_CleanCloseReopens ==
    [][ /\ (decPc = "poll" /\ decPc' = "open") =>
              /\ errCh' = errCh /\ runErr' = runErr /\ runPc' = runPc
              /\ ~respOpen'
              /\ watchVersion' = watchVersion
        /\ (decPc = "open" /\ decPc' = "poll") =>
              /\ respOpen'
              /\ pos' = WatchClusters(IF decoded = << >> THEN initCursor
                                      ELSE Last(decoded).rv)
        /\ decoded' = LogBetween(initCursor, watchVersion)'
      ]_vars

C6_Witness ==
    /\ decPc = "open" /\ ~respOpen
    /\ decoded # << >>
    /\ Len(log) > Len(decoded)
    /\ errCh = NoErr /\ runErr = NoErr /\ runPc = "recvErr"

(***************************************************************************)
(* C7.  Handling a DELETED event for a name that has a runtime ends with   *)
(* that runtime signalled to stop and completed and with the name removed  *)
(* from clusters, before the next event is taken; while Delete waits the   *)
(* stop signal is already raised.  A DELETED or MODIFIED event for a name  *)
(* without a runtime changes neither map nor any runtime.                  *)
(***************************************************************************)
C7_DeletedStopsAndRemoves ==
    [][ /\ Handles("DELETED") =>
              IF clusters[cur.name] = 0
              THEN UNCHANGED mapVars
              ELSE /\ runtimes[clusters[cur.name]].stop
                   /\ runtimes[clusters[cur.name]].phase = "done"
                   /\ clusters' = [clusters EXCEPT ![cur.name] = 0]
                   /\ UNCHANGED << runtimes, waitCluster >>
        /\ procPc' = "deleting" => runtimes'[clusters'[cur'.name]].stop
        /\ (Handles("MODIFIED") /\ clusters[cur.name] = 0) => UNCHANGED mapVars
        /\ cur' # cur => (cur = NoEvent \/ cur' = NoEvent)
      ]_vars

C7_Witness ==
    /\ Len(handled) >= 2
    /\ handled[1].type = "DELETED"
    /\ handled[2].type \in {"MODIFIED", "DELETED"}
    /\ handled[2].name = handled[1].name
    /\ clusters[handled[1].name] = 0
    /\ \E k \in 1..Len(runtimes) :
          /\ runtimes[k].name = handled[1].name
          /\ runtimes[k].phase = "done"

(***************************************************************************)
(* C8.  Handling a MODIFIED event changes nothing but the spec of the      *)
(* runtime registered under the event's name, which becomes the event's    *)
(* spec; with no runtime under that name it changes nothing.               *)
(***************************************************************************)
C8_ModifiedForwardsToOne ==
    [][ Handles("MODIFIED") =>
          /\ UNCHANGED << clusters, stopChMap, waitCluster >>
          /\ runtimes' = IF clusters[cur.name] = 0
                           THEN runtimes
                           ELSE [runtimes EXCEPT ![clusters[cur.name]].spec = cur.spec]
      ]_vars

C8_Witness ==
    /\ handled # << >>
    /\ Last(handled).type = "MODIFIED"
    /\ \A n \in Names : clusters[n] # 0 /\ runtimes[clusters[n]].phase = "running"
    /\ \A n \in Names :
          (runtimes[clusters[n]].spec = Last(handled).spec) <=> (n = Last(handled).name)
    /\ listed # << >> /\ listed[1].spec # Last(handled).spec

(***************************************************************************)
(* C9.  Handling an ADDED event for a name without a runtime builds and    *)
(* registers one runtime on a new stop channel; for a name that already    *)
(* has a runtime it builds none and forwards the event's spec to the       *)
(* registered runtime, as a MODIFIED event would.                          *)
(***************************************************************************)
C9_AddedReplayForwards ==
    [][ Handles("ADDED") =>
          IF clusters[cur.name] = 0
          THEN /\ Cardinality(Constructed(runtimes')) = Cardinality(Constructed(runtimes)) + 1
               /\ clusters'[cur.name] \in Constructed(runtimes') \ Constructed(runtimes)
               /\ stopChMap'[cur.name] = clusters'[cur.name]
          ELSE /\ Constructed(runtimes') = Constructed(runtimes)
               /\ clusters' = clusters
               /\ runtimes'[clusters[cur.name]].spec = cur.spec
      ]_vars

(***************************************************************************)
(* C10.  No watch is opened before initResource has succeeded, and a       *)
(* failed initResource is tried again, having registered no runtime.  A    *)
(* fresh registration returns the cursor "0" with no runtime registered;   *)
(* on AlreadyExists the cursor is the list's ResourceVersion and exactly   *)
(* one runtime is registered per listed cluster.                           *)
(***************************************************************************)
C10_InitBeforeWatch ==
    /\ (decPc # "notStarted" \/ procPc # "notStarted" \/ respOpen
            \/ runPc \notin {"init", "monitor"})
          => initPath # "none"
    /\ initFailed => runPc = "init"
    /\ runPc = "init" =>
          /\ initPath = "none" /\ runErr = NoErr
          /\ runtimes = << >> /\ waitCluster = 0
          /\ \A n \in Names : clusters[n] = 0 /\ stopChMap[n] = 0
    /\ (runPc = "monitor" /\ initPath = "fresh") =>
          /\ watchVersion = 0
          /\ runtimes = << >>
          /\ \A n \in Names : clusters[n] = 0 /\ stopChMap[n] = 0
    /\ (runPc = "monitor" /\ initPath = "listed") =>
          /\ watchVersion = version
          /\ Len(runtimes) = Len(listed)
          /\ waitCluster = Len(listed)
          /\ \A i \in 1..Len(listed) :
                /\ LiveFor(listed[i].name) = { clusters[listed[i].name] }
                /\ stopChMap[listed[i].name] = clusters[listed[i].name]
          /\ \A n \in Names :
                (\A i \in 1..Len(listed) : listed[i].name # n)
                    => clusters[n] = 0 /\ stopChMap[n] = 0

C10_Witness ==
    /\ runPc = "monitor" /\ initPath = "listed"
    /\ Len(listed) = 2
    /\ watchVersion > 0


(***************************************************************************)
(* The per-cluster reconciler (pkg/cluster), for one cluster.  Its loop is *)
(* the one of the design document, section 4.E: startup creates the two    *)
(* services, every tick lists the peer pods and applies at most one action,*)
(* Update replaces the spec, Delete stops the loop and removes the         *)
(* services and the peer pods.  The calls it makes are those of k8sutil.   *)
(***************************************************************************)
\* the largest Size a spec asks for
MaxSize == 2

\* external changes (spec updates, pods deleted by others) and failed API
\* calls that can still happen
MaxFaults == 2

\* the cluster the reconciler serves, and another cluster of the namespace
RecName == "a"
OtherName == "b"

\* the specs the reconciler is given
RecSpecs ==
    [Size : 1..MaxSize, Version : Versions, Paused : BOOLEAN,
     AntiAffinity : {FALSE}, NodeSelector : {{}}]

\* history: the step taken now, and the kind of the step before it
Step(op, name, outcome) ==
    [op |-> op, name |-> name, outcome |-> outcome, prev |-> lastAct.op]

\* the peer pods of the cluster, by position in `pods`
Peers == PodListOpt(pods, RecName)
RunningPeers == { i \in Peers : pods[i].phase = "Running" }
WrongVersion == { i \in Peers : GetNATSVersion(pods[i]) # recSpec.Version }

\* pods without the one at position i
Without(ps, i) == [j \in 1..(Len(ps) - 1) |-> IF j < i THEN ps[j] ELSE ps[j + 1]]

\* the newest-created of the pods at the positions in S
Newest(S) == CHOOSE i \in S : \A j \in S : j <= i

\* a pod of the other cluster, running
OtherPod == Started(MakePodSpec(OtherName, CHOOSE s \in RecSpecs : TRUE), "running")

\* the supervisor and the natsclusters collection, at rest
SupAtRest ==
    /\ tprExists = TRUE
    /\ version = 0
    /\ log = <<>>
    /\ runPc = "init"
    /\ initFailed = FALSE
    /\ watchVersion = 0
    /\ runErr = NoErr
    /\ clusters = [n \in Names |-> 0]
    /\ stopChMap = [n \in Names |-> 0]
    /\ runtimes = <<>>
    /\ waitCluster = 0
    /\ decPc = "notStarted"
    /\ pos = 0
    /\ respOpen = FALSE
    /\ pending = NoEvent
    /\ errCh = NoErr
    /\ procPc = "notStarted"
    /\ cur = NoEvent
    /\ exited = FALSE
    /\ initPath = "none"
    /\ listed = <<>>
    /\ initCursor = 0
    /\ decoded = <<>>
    /\ handled = <<>>
    /\ goneSeen = FALSE

\* the reconciler as cluster.New or cluster.Restore leaves it: the services
\* may exist already (Restore), a pod of another cluster may run
RecInit ==
    /\ SupAtRest
    /\ services \in { {}, {makeServiceSpec(RecName), makeMgmtServiceSpec(RecName)} }
    /\ pods \in { <<>>, << OtherPod >> }
    /\ lastErr = NilErr
    /\ recSpec \in RecSpecs
    /\ recPc = "startup"
    /\ recStop = "none"
    /\ replacing = 0
    /\ lastAct = NoStep
    /\ budget = MaxFaults

\* an API call may fail while failures are still to come
Oks == IF budget > 0 THEN BOOLEAN ELSE {TRUE}
Spend(ok) == IF ok THEN budget ELSE budget - 1

\* 4.E step 1: create the management service and the client service;
\* AlreadyExists is ignored, another error fails the startup
RecStartup ==
    /\ recPc = "startup"
    /\ \E ok \in Oks :
         LET m == CreateMgmtService(services, RecName, ok)
             mOk == m.err = NilErr \/ IsKubernetesResourceAlreadyExistError(m.err)
             c == CreateService(m.services, RecName, ok)
             cOk == c.err = NilErr \/ IsKubernetesResourceAlreadyExistError(c.err)
         IN  /\ services' = IF mOk THEN c.services ELSE m.services
             /\ lastErr' = IF mOk THEN c.err ELSE m.err
             /\ recPc' = IF mOk /\ cOk THEN "loop" ELSE "failed"
             /\ budget' = Spend(ok)
             /\ lastAct' = Step("startup", RecName, IF ok THEN "ok" ELSE "fails")
    /\ UNCHANGED << pods, recSpec, recStop, replacing >>
    /\ UNCHANGED supVars

\* fault variant of TickPaused: the paused tick still fills a deficit
TickPaused_Reconciles ==
    /\ recPc = "loop" /\ recStop = "none"
    /\ recSpec.Paused
    /\ pods' = IF Cardinality(RunningPeers) < recSpec.Size
                THEN CreateAndWaitPod(pods, MakePodSpec(RecName, recSpec), "running").pods
                ELSE pods
    /\ lastAct' = Step("tick", "paused", "")
    /\ UNCHANGED << services, lastErr, recSpec, recPc, recStop, replacing, budget >>
    /\ UNCHANGED supVars

\* 4.E step 2a: the spec is paused, the tick does nothing
TickPaused ==
    /\ recPc = "loop" /\ recStop = "none"
    /\ recSpec.Paused
    /\ lastAct' = Step("tick", "paused", "")
    /\ UNCHANGED << services, pods, lastErr, recSpec, recPc, recStop, replacing, budget >>
    /\ UNCHANGED supVars

\* 4.E step 2d, Upgrade: one pod of another version is deleted
TickUpgrade ==
    /\ recPc = "loop" /\ recStop = "none"
    /\ ~recSpec.Paused
    /\ WrongVersion # {}
    /\ \E i \in WrongVersion :
         /\ pods' = Without(pods, i)
         /\ replacing' = IF pods[i].phase = "Running" THEN replacing + 1 ELSE replacing
    /\ lastAct' = Step("tick", "upgrade", "")
    /\ UNCHANGED << services, lastErr, recSpec, recPc, recStop, budget >>
    /\ UNCHANGED supVars

\* fault variant of TickScaleDown: the tick sees the excess and deletes nothing
TickScaleDown_KeepsPod ==
    /\ recPc = "loop" /\ recStop = "none"
    /\ ~recSpec.Paused
    /\ WrongVersion = {}
    /\ Cardinality(RunningPeers) > recSpec.Size
    /\ lastAct' = Step("tick", "scaleDown", "")
    /\ UNCHANGED << services, pods, lastErr, recSpec, recPc, recStop, replacing, budget >>
    /\ UNCHANGED supVars

\* 4.E step 2d, Scale down: the newest-created pod is deleted
TickScaleDown ==
    /\ recPc = "loop" /\ recStop = "none"
    /\ ~recSpec.Paused
    /\ WrongVersion = {}
    /\ Cardinality(RunningPeers) > recSpec.Size
    /\ pods' = Without(pods, Newest(Peers))
    /\ lastAct' = Step("tick", "scaleDown", "")
    /\ UNCHANGED << services, lastErr, recSpec, recPc, recStop, replacing, budget >>
    /\ UNCHANGED supVars

\* fault variant of TickScaleUp: a pod is created only by the tick that
\* follows a spec update, not by the periodic tick
TickScaleUp_OnUpdateOnly ==
    /\ recPc = "loop" /\ recStop = "none"
    /\ lastAct.op = "update"
    /\ ~recSpec.Paused
    /\ WrongVersion = {}
    /\ Cardinality(RunningPeers) < recSpec.Size
    /\ \E outcome \in PodOutcomes :
         LET r == CreateAndWaitPod(pods, MakePodSpec(RecName, recSpec), outcome)
         IN  /\ outcome # "running" => budget > 0
             /\ budget' = Spend(outcome = "running")
             /\ pods' = r.pods
             /\ lastErr' = r.err
             /\ replacing' = IF Len(r.pods) > Len(pods) /\ replacing > 0
                               THEN replacing - 1 ELSE replacing
             /\ lastAct' = Step("tick", "scaleUp", outcome)
    /\ UNCHANGED << services, recSpec, recPc, recStop >>
    /\ UNCHANGED supVars

\* 4.E step 2d, Scale up: one pod is built by MakePodSpec and created by
\* CreateAndWaitPod; an error is logged and the next tick tries again
TickScaleUp ==
    /\ recPc = "loop" /\ recStop = "none"
    /\ ~recSpec.Paused
    /\ WrongVersion = {}
    /\ Cardinality(RunningPeers) < recSpec.Size
    /\ \E outcome \in PodOutcomes :
         LET r == CreateAndWaitPod(pods, MakePodSpec(RecName, recSpec), outcome)
         IN  /\ outcome # "running" => budget > 0
             /\ budget' = Spend(outcome = "running")
             /\ pods' = r.pods
             /\ lastErr' = r.err
             /\ replacing' = IF Len(r.pods) > Len(pods) /\ replacing > 0
                               THEN replacing - 1 ELSE replacing
             /\ lastAct' = Step("tick", "scaleUp", outcome)
    /\ UNCHANGED << services, recSpec, recPc, recStop >>
    /\ UNCHANGED supVars

\* 4.E step 2d: nothing to do
TickSteady ==
    /\ recPc = "loop" /\ recStop = "none"
    /\ ~recSpec.Paused
    /\ WrongVersion = {}
    /\ Cardinality(RunningPeers) = recSpec.Size
    /\ lastAct' = Step("tick", "steady", "")
    /\ UNCHANGED << services, pods, lastErr, recSpec, recPc, recStop, replacing, budget >>
    /\ UNCHANGED supVars

\* 4.E step 2: one reconcile tick
RecTick == TickPaused \/ TickUpgrade \/ TickScaleDown \/ TickScaleUp \/ TickSteady

\* 4.E step 3, Update(newSpec): the spec the runtime holds is replaced
RecUpdate ==
    /\ recPc = "loop" /\ recStop = "none"
    /\ budget > 0
    /\ \E newSpec \in RecSpecs \ {recSpec} : recSpec' = newSpec
    /\ budget' = budget - 1
    /\ lastAct' = Step("update", RecName, IF recSpec.Paused THEN "paused" ELSE "")
    /\ UNCHANGED << services, pods, lastErr, recPc, recStop, replacing >>
    /\ UNCHANGED supVars

\* a created pod that is not running yet starts to run
PodRuns ==
    /\ \E i \in 1..Len(pods) :
         /\ pods[i].phase = "Pending"
         /\ pods' = [pods EXCEPT ![i].phase = "Running"]
    /\ lastAct' = Step("podRuns", "", "")
    /\ UNCHANGED << services, lastErr, recSpec, recPc, recStop, replacing, budget >>
    /\ UNCHANGED supVars

\* a peer pod is deleted by someone else
ExternalDelete ==
    /\ budget > 0
    /\ \E i \in Peers : pods' = Without(pods, i)
    /\ budget' = budget - 1
    /\ lastAct' = Step("externalDelete", RecName, "")
    /\ UNCHANGED << services, lastErr, recSpec, recPc, recStop, replacing >>
    /\ UNCHANGED supVars

\* the stop signal is set: by Delete() (4.E step 4), or by the supervisor
\* closing the stop channel
RecSignal ==
    /\ recPc = "loop" /\ recStop = "none"
    /\ \E by \in {"delete", "stop"} :
         /\ recStop' = by
         /\ lastAct' = Step("signal", RecName, by)
    /\ UNCHANGED << services, pods, lastErr, recSpec, recPc, replacing, budget >>
    /\ UNCHANGED supVars

\* the loop observes the stop signal and exits; the latch is released
RecExit ==
    /\ recPc = "loop" /\ recStop # "none"
    /\ recPc' = "exited"
    /\ lastAct' = Step("exit", RecName, "")
    /\ UNCHANGED << services, pods, lastErr, recSpec, recStop, replacing, budget >>
    /\ UNCHANGED supVars

\* 4.E step 4, Delete() after the loop has exited: the two services are
\* deleted, NotFound is ignored.  Of the peer pods one is deleted, not all
\* of them: the design notes (section 9) report that of the code.
RecTeardown ==
    /\ recPc = "exited" /\ recStop = "delete"
    /\ LET c == DeleteService(services, RecName, TRUE)
           m == DeleteMgmtService(c.services, RecName, TRUE)
       IN  services' = m.services
    /\ IF Peers = {}
         THEN pods' = pods
         ELSE \E i \in Peers : pods' = Without(pods, i)
    /\ recPc' = "torn"
    /\ lastAct' = Step("teardown", RecName, IF Peers = {} THEN "" ELSE "pods")
    /\ UNCHANGED << lastErr, recSpec, recStop, replacing, budget >>
    /\ UNCHANGED supVars

RecNext ==
    \/ RecStartup
    \/ TickPaused
    \/ TickUpgrade
    \/ TickScaleDown
    \/ TickScaleUp
    \/ TickSteady
    \/ RecUpdate
    \/ PodRuns
    \/ ExternalDelete
    \/ RecSignal
    \/ RecExit
    \/ RecTeardown

RecSpec == RecInit /\ [][RecNext]_vars

\* the ticks are periodic, the loop and Delete() go on, and a created pod
\* starts unless it is deleted
RecFairSpec ==
    /\ RecSpec
    /\ WF_vars(RecStartup)
    /\ WF_vars(RecTick)
    /\ WF_vars(PodRuns)
    /\ WF_vars(RecExit)
    /\ WF_vars(RecTeardown)

RecTypeOK ==
    /\ recPc \in {"startup", "failed", "loop", "exited", "torn"}
    /\ recStop \in {"none", "stop", "delete"}
    /\ budget \in 0..MaxFaults
    /\ recSpec \in RecSpecs
    /\ \A i \in 1..Len(pods) : pods[i].phase \in {"Pending", "Running"}

(***************************************************************************)
(* The service calls of k8sutil, made in any order, for any cluster name,  *)
(* against an API server that may or may not be reached.                   *)
(***************************************************************************)
\* the reconciler's variables while no reconciler runs
NoReconciler ==
    /\ recPc = "none"
    /\ recStop = "none"
    /\ replacing = 0
    /\ budget = 0

SvcInit ==
    /\ SupAtRest
    /\ NoReconciler
    /\ services = {}
    /\ pods = <<>>
    /\ lastErr = NilErr
    /\ recSpec = NoSpec
    /\ lastAct = NoStep

Reached(ok) == IF ok THEN "ok" ELSE "fails"

SvcFrame == UNCHANGED << supVars, pods, recSpec, recPc, recStop, replacing, budget >>

CallCreateMgmtService ==
    /\ \E name \in Names, ok \in BOOLEAN :
         LET r == CreateMgmtService(services, name, ok)
         IN  /\ services' = r.services
             /\ lastErr' = r.err
             /\ lastAct' = Step("CreateMgmtService", name, Reached(ok))
    /\ SvcFrame

CallDeleteMgmtService ==
    /\ \E name \in Names, ok \in BOOLEAN :
         LET r == DeleteMgmtService(services, name, ok)
         IN  /\ services' = r.services
             /\ lastErr' = r.err
             /\ lastAct' = Step("DeleteMgmtService", name, Reached(ok))
    /\ SvcFrame

CallCreateService ==
    /\ \E name \in Names, ok \in BOOLEAN :
         LET r == CreateService(services, name, ok)
         IN  /\ services' = r.services
             /\ lastErr' = r.err
             /\ lastAct' = Step("CreateService", name, Reached(ok))
    /\ SvcFrame

CallDeleteService ==
    /\ \E name \in Names, ok \in BOOLEAN :
         LET r == DeleteService(services, name, ok)
         IN  /\ services' = r.services
             /\ lastErr' = r.err
             /\ lastAct' = Step("DeleteService", name, Reached(ok))
    /\ SvcFrame

\* another call of the client returns an error of the API
CallReturns ==
    /\ \E e \in ApiErrors :
         /\ lastErr' = e
         /\ lastAct' = Step("call", "", "")
    /\ UNCHANGED services
    /\ SvcFrame

SvcNext ==
    \/ CallCreateMgmtService
    \/ CallDeleteMgmtService
    \/ CallCreateService
    \/ CallDeleteService
    \/ CallReturns

SvcSpec == SvcInit /\ [][SvcNext]_vars

(***************************************************************************)
(* The pod calls of k8sutil: pods are built by MakePodSpec from the spec   *)
(* of the moment and created by CreateAndWaitPod, for any cluster name and *)
(* any outcome; the spec is updated in between.                            *)
(***************************************************************************)
\* the pods of the namespace the calls are tried on
MaxPods == 2

PodInit ==
    /\ SupAtRest
    /\ NoReconciler
    /\ services = {}
    /\ pods = <<>>
    /\ lastErr = NilErr
    /\ recSpec \in ClusterSpecs
    /\ lastAct = NoStep

PodFrame == UNCHANGED << supVars, services, recPc, recStop, replacing, budget >>

CallCreateAndWaitPod ==
    /\ Len(pods) < MaxPods
    /\ \E name \in Names, outcome \in PodOutcomes :
         LET r == CreateAndWaitPod(pods, MakePodSpec(name, recSpec), outcome)
         IN  /\ pods' = r.pods
             /\ lastErr' = r.err
             /\ lastAct' = Step("CreateAndWaitPod", name, outcome)
    /\ UNCHANGED recSpec
    /\ PodFrame

\* the spec of the cluster is changed
SpecUpdate ==
    /\ \E newSpec \in ClusterSpecs \ {recSpec} : recSpec' = newSpec
    /\ lastAct' = Step("update", "", "")
    /\ UNCHANGED << pods, lastErr >>
    /\ PodFrame

\* a created pod that is not running yet starts to run
PodStarts ==
    /\ \E i \in 1..Len(pods) :
         /\ pods[i].phase = "Pending"
         /\ pods' = [pods EXCEPT ![i].phase = "Running"]
    /\ lastAct' = Step("podRuns", "", "")
    /\ UNCHANGED << recSpec, lastErr >>
    /\ PodFrame

PodNext ==
    \/ CallCreateAndWaitPod
    \/ SpecUpdate
    \/ PodStarts

PodSpec == PodInit /\ [][PodNext]_vars

(***************************************************************************)
(* Notions the properties of the reconciler are stated with.               *)
(***************************************************************************)
\* the loop runs and the spec it holds is not paused
Active == recPc = "loop" /\ recStop = "none" /\ ~recSpec.Paused

\* the number of peer pods labelled for the cluster
PeerCount == Cardinality(Peers)

(***************************************************************************)
(* C11: under fair reconcile ticks, once API failures and external changes *)
(* have come to an end and the created pods have started, the number of    *)
(* peer pods labelled for the cluster equals the Size of the spec and      *)
(* stays so, as long as the loop runs and the spec is not paused; this     *)
(* holds after the Size was raised and after it was lowered.               *)
(***************************************************************************)
C11_PeerCountConverges == <>[](Active => PeerCount = recSpec.Size)

\* the Size was lowered, the next tick has deleted the newest pod and the
\* count is the Size again
C11_Witness ==
    /\ Active /\ PeerCount = recSpec.Size
    /\ lastAct.op = "tick" /\ lastAct.name = "scaleDown"
    /\ lastAct.prev = "update"

(***************************************************************************)
(* C12: when a peer pod is deleted by someone else while the loop runs     *)
(* unpaused, the ticks alone (no spec update, no watch event is assumed to *)
(* follow) bring the number of peer pods back to Size; and the pod a tick  *)
(* creates carries the version of the spec the reconciler holds in its     *)
(* nats.version annotation.                                                *)
(***************************************************************************)
C12_ReplacedAfterExternalDelete ==
    /\ (lastAct.op = "externalDelete" /\ Active)
          ~> (PeerCount = recSpec.Size \/ ~Active)
    /\ [][lastAct'.op = "tick" /\ Len(pods') > Len(pods)
            => GetNATSVersion(Last(pods')) = recSpec.Version]_vars

\* a peer pod was deleted by someone else and the very next step, a tick,
\* has created a running replacement of the current version
C12_Witness ==
    /\ Active /\ PeerCount = recSpec.Size
    /\ lastAct.op = "tick" /\ lastAct.name = "scaleUp" /\ lastAct.outcome = "running"
    /\ lastAct.prev = "externalDelete"
    /\ GetNATSVersion(Last(pods)) = recSpec.Version

(***************************************************************************)
(* C13: during a rollout the reconciler never has more than one peer being *)
(* replaced: at most one running pod it has deleted because of its version *)
(* is lacking and still without a replacement.                             *)
(***************************************************************************)
\* the running peers the cluster lacks
Deficit ==
    IF Cardinality(RunningPeers) < recSpec.Size
      THEN recSpec.Size - Cardinality(RunningPeers) ELSE 0

\* the peers being replaced: lacking because the reconciler deleted them for
\* their version
BeingReplaced == IF replacing < Deficit THEN replacing ELSE Deficit

C13_OneReplacedAtATime == BeingReplaced <= 1

(***************************************************************************)
(* C14: a tick taken while the spec the reconciler holds is paused leaves  *)
(* the pods as they are, whatever the mismatch of count or version; the    *)
(* paused reconciler still takes spec updates, and after an update that    *)
(* ends the pause the number of peer pods comes to Size again.             *)
(***************************************************************************)
C14_PausedChangesNoPod ==
    /\ [][recSpec.Paused /\ lastAct'.op = "tick" => pods' = pods]_vars
    /\ (lastAct.op = "update" /\ lastAct.outcome = "paused" /\ Active)
          ~> (PeerCount = recSpec.Size \/ ~Active)

\* a tick was taken while paused and short of peers, then the update that
\* ends the pause was taken: the peers are still lacking
C14_Witness ==
    /\ lastAct.op = "update" /\ lastAct.outcome = "paused" /\ lastAct.prev = "tick"
    /\ Active /\ PeerCount < recSpec.Size

(***************************************************************************)
(* C15: after Delete() has run to completion (the runtime is torn down)    *)
(* neither the client service, nor the management service, nor a peer pod  *)
(* labelled for the cluster exists.                                        *)
(***************************************************************************)
C15_NothingLeftAfterDelete ==
    recPc = "torn" =>
        /\ Peers = {}
        /\ ~\E svc \in services :
              svc.name \in {makeServiceSpec(RecName).name,
                            makeMgmtServiceSpec(RecName).name}

(***************************************************************************)
(* C16: a watch frame of type ERROR whose status code is not 410 is taken  *)
(* as a fatal error on the path of the other fatal decoder errors: the     *)
(* process does not end on it before Run has returned a non-nil error and  *)
(* every runtime has been stopped and has completed.                       *)
(***************************************************************************)
C16_OtherStatusEndsRun ==
    exited => /\ runPc = "returned" /\ runErr # NoErr
              /\ Live(runtimes) = {}

(***************************************************************************)
(* The accesses to Controller.clusters and Controller.stopChMap that the   *)
(* next step of a task makes.  No lock or channel orders the step of one   *)
(* task against the step of another: two accesses that are both about to   *)
(* be made are concurrent.                                                 *)
(***************************************************************************)
\* Run's own task: findAllClusters writes both maps (lines 171-174), the
\* deferred cascade ranges over stopChMap (line 119)
RunMapAccess ==
    CASE runPc = "init"    -> { <<"clusters", "write">>, <<"stopChMap", "write">> }
      [] runPc = "cascade" -> { <<"stopChMap", "read">> }
      [] OTHER             -> {}

\* the event-processing task: lines 135 and 137 (ADDED), 140 and 145 (the
\* lookups of MODIFIED and DELETED), 150 (delete)
ProcMapAccess ==
    CASE procPc = "handle" /\ cur.type = "ADDED" -> { <<"stopChMap", "write">> }
      [] procPc = "handle" /\ cur.type # "ADDED" -> { <<"clusters", "read">> }
      [] procPc = "adding"                        -> { <<"clusters", "write">> }
      [] procPc = "deleting"                      -> { <<"clusters", "write">> }
      [] OTHER                                    -> {}

\* the decoder task touches neither map (lines 230-276)
DecMapAccess == {}

Conflict(A, B) ==
    \E x \in A, y \in B : x[1] = y[1] /\ "write" \in {x[2], y[2]}

(***************************************************************************)
(* C17: the clusters map and the stop-signal map are accessed by one task  *)
(* at a time: no two of Run's own task, the event-processing task and the  *)
(* decoder task are about to make conflicting accesses to the same map.    *)
(***************************************************************************)
C17_MapsOneTaskAtATime ==
    /\ ~Conflict(RunMapAccess, ProcMapAccess)
    /\ ~Conflict(RunMapAccess, DecMapAccess)
    /\ ~Conflict(ProcMapAccess, DecMapAccess)

(***************************************************************************)
(* C18: CreateMgmtService, called any number of times for a cluster name   *)
(* against an API server that is reached, leaves exactly one service named *)
(* <clusterName>-mgmt: the call that finds none creates it and returns no  *)
(* error, every call that finds it returns an error that                   *)
(* IsKubernetesResourceAlreadyExistError recognises and changes no         *)
(* service; and that function recognises an error only if it is a status   *)
(* error of code 409 with the reason AlreadyExists.                        *)
(***************************************************************************)
MgmtServices(svcs, name) == { svc \in svcs : svc.name = name \o "-mgmt" }

C18_CreateMgmtServiceIdempotent ==
    /\ [][lastAct'.op = "CreateMgmtService" /\ lastAct'.outcome = "ok" =>
            LET name == lastAct'.name
            IN  /\ Cardinality(MgmtServices(services', name)) = 1
                /\ IF MgmtServices(services, name) = {}
                     THEN lastErr' = NilErr
                     ELSE /\ IsKubernetesResourceAlreadyExistError(lastErr')
                          /\ services' = services]_vars
    /\ [](IsKubernetesResourceAlreadyExistError(lastErr) =>
            /\ lastErr.kind = "StatusError"
            /\ lastErr.code = 409 /\ lastErr.reason = "AlreadyExists")

\* CreateMgmtService was called twice in a row; the second call found the
\* service and returned AlreadyExists
C18_Witness ==
    /\ lastAct.op = "CreateMgmtService" /\ lastAct.prev = "CreateMgmtService"
    /\ lastAct.outcome = "ok"
    /\ IsKubernetesResourceAlreadyExistError(lastErr)
    /\ Cardinality(MgmtServices(services, lastAct.name)) = 1

\* pods' is pods with one pod added at the end
PodAdded == Len(pods') = Len(pods) + 1 /\ SubSeq(pods', 1, Len(pods)) = pods

(***************************************************************************)
(* C19: CreateAndWaitPod returns no error only if the pod was created and  *)
(* was seen Running before the deadline; when the create call fails it     *)
(* returns an error and no pod was added; when the pod was created and did *)
(* not run before the deadline it returns the timeout error and the pod    *)
(* is left in place, not running.                                          *)
(***************************************************************************)
C19_CreateAndWaitPodOutcomes ==
    [][lastAct'.op = "CreateAndWaitPod" =>
        /\ lastErr' = NilErr <=> lastAct'.outcome = "running"
        /\ lastErr' = NilErr => PodAdded /\ Last(pods').phase = "Running"
        /\ lastAct'.outcome = "createFails" => lastErr' # NilErr /\ pods' = pods
        /\ lastAct'.outcome = "deadline" =>
              /\ lastErr' = ErrWaitTimeout
              /\ PodAdded /\ Last(pods').phase = "Pending"]_vars

\* the pod did not run before the deadline: the timeout error was returned
\* and the pod is there
C19_Witness ==
    /\ lastAct.op = "CreateAndWaitPod" /\ lastAct.outcome = "deadline"
    /\ lastErr = ErrWaitTimeout
    /\ pods # <<>> /\ Last(pods).phase = "Pending"

(***************************************************************************)
(* C20: the pod built by MakePodSpec for a cluster name and a spec carries *)
(* the annotation nats.version with the Version of the spec, the image     *)
(* nats:<Version>, the labels app=nats and nats_cluster=<name>, and the    *)
(* name prefix <name>-; so a created pod is annotated with the Version of  *)
(* the spec it was created from, and no later step, a spec update          *)
(* included, changes the annotation of a pod that exists.                  *)
(***************************************************************************)
C20_PodCarriesVersion ==
    /\ [][lastAct'.op = "CreateAndWaitPod" /\ PodAdded =>
            LET pod == Last(pods')
                name == lastAct'.name
            IN  /\ pod.annotations["nats.version"] = recSpec.Version
                /\ pod.container.image = "nats:" \o recSpec.Version
                /\ pod.labels = [app |-> "nats", nats_cluster |-> name]
                /\ pod.generateName = name \o "-"]_vars
    /\ [][\A i \in 1..Len(pods) :
            /\ i <= Len(pods')
            /\ GetNATSVersion(pods'[i]) = GetNATSVersion(pods[i])]_vars

\* a pod was created, then the spec was updated to another version: the
\* pod keeps the annotation of the version it was created from
C20_Witness ==
    /\ lastAct.op = "update" /\ lastAct.prev = "CreateAndWaitPod"
    /\ pods # <<>>
    /\ GetNATSVersion(Last(pods)) # recSpec.Version
    /\ GetNATSVersion(Last(pods)) \in Versions

(***************************************************************************)
(* C21: when initResource has taken the AlreadyExists path, each runtime   *)
(* that findAllClusters has restored holds the spec the list reported for  *)
(* its own name.                                                           *)
(***************************************************************************)
C21_RestoredWithOwnSpec ==
    (runPc = "monitor" /\ initPath = "listed") =>
        \A i \in 1..Len(listed) :
            runtimes[clusters[listed[i].name]].spec = listed[i].spec

\* the processing task is between two events (or has not started, or is done)
BetweenEvents == procPc \notin {"handle", "adding", "deleting"}

\* the runtimes whose stop channel the shutdown cascade would close now
Signalled == { k \in 1..Len(runtimes) : \E n \in Names : stopChMap[n] = k }

(***************************************************************************)
(* C22: between event handlings stopChMap and clusters have the same keys  *)
(* and the channel stored under a name is the one the runtime registered   *)
(* under that name was built on; so, until the shutdown cascade has run,   *)
(* the channels it would close are those of the live runtimes, no more and *)
(* no less.                                                                *)
(***************************************************************************)
C22_StopMapMatchesClusters ==
    BetweenEvents =>
        /\ \A n \in Names : (stopChMap[n] # 0) <=> (clusters[n] # 0)
        /\ \A n \in Names : clusters[n] # 0 => stopChMap[n] = clusters[n]
        /\ runPc \in {"monitor", "recvErr", "cascade"} => Signalled = Live(runtimes)

\* a service selects the pods that carry every label of its selector
Selects(svc, pod) ==
    \A k \in DOMAIN svc.selector :
        k \in DOMAIN pod.labels /\ pod.labels[k] = svc.selector[k]

(***************************************************************************)
(* C23: for every cluster name, the management service <name>-mgmt, which  *)
(* the --routes argument of each peer points at, selects the pods built by *)
(* MakePodSpec for that name and no pod built for another name.            *)
(***************************************************************************)
C23_MgmtServiceSelectsPeers ==
    \A i \in 1..Len(pods), name \in Names :
        /\ pods[i].container.args[3] = "--routes=" \o makeMgmtServiceSpec(pods[i].labels.nats_cluster).name
        /\ Selects(makeMgmtServiceSpec(name), pods[i])
              <=> pods[i].generateName = name \o "-"

====
